---------------------------- MODULE Spec2Model ----------------------------
(***************************************************************************)
(* Model of tweet-insight-daily: the /api/s3-data route handler (GET) and  *)
(* the S3DataDisplay client component (fetchData, its two effects,         *)
(* changeDate, the Refresh / Try Again buttons).                           *)
(*                                                                         *)
(* Date strings are sequences of one-character strings, so that the date   *)
(* regular expression, Date parsing and toISOString are computed and not   *)
(* assumed.  Instants are whole hours since 1970-01-01T00:00Z.             *)
(***************************************************************************)
EXTENDS Integers, Sequences, FiniteSets, TLC

VARIABLES
    now,            \* the wall clock's instant, fixed during a behaviour
    tz,             \* the browser's time zone
    env,            \* process.env of the server: which values are set
    store,          \* the bucket: date string -> kind of object stored
    mounted,        \* whether the component's effects have run
    url,            \* the utc_date search parameter of the page URL
    history,        \* the browser's session history: the URLs' utc_date
    hpos,           \* the position of the current entry in history
    data,           \* useState data
    loading,        \* useState loading
    error,          \* useState error
    hasInitialized, \* useState hasInitialized
    selectedDate,   \* useState selectedDate
    calls,          \* the fetchData invocations, in call order
    s3log,          \* keys of the GetObject commands sent to S3, in order
    clicks,         \* user actions taken so far
    netFaults,      \* browser-to-API transport failures so far
    api,            \* GET harness: the request and its response
    cal,            \* day-arithmetic harness: date, steps applied, result
    list            \* card-list harness: a summary's news and its cards

vars == <<now, tz, env, store, mounted, url, history, hpos, data, loading,
          error, hasInitialized, selectedDate, calls, s3log, clicks,
          netFaults, api, cal, list>>

\* the most user actions (clicks, back/forward) in a behaviour
MaxClicks == 2

\* the most browser-to-API transport failures in a behaviour
MaxNetFaults == 1

\* what no action of the page changes: clock, zone, environment, bucket
world == <<now, tz, env, store>>

\* the state of the stand-alone specifications SpecApi, SpecCal and SpecList
harness == <<api, cal, list>>

\* null, and the empty string: every test the code makes of a string that may
\* be null (!x, x || y, x && ...) takes the two alike
Null == <<>>

\* error === null
NoError == "null"

-----------------------------------------------------------------------------
(* Characters and strings *)

Digits == {"0", "1", "2", "3", "4", "5", "6", "7", "8", "9"}

DigitSeq == <<"0", "1", "2", "3", "4", "5", "6", "7", "8", "9">>

DigitVal(c) == (CHOOSE i \in 1..10 : DigitSeq[i] = c) - 1

\* String(n).padStart(2, '0') as toISOString writes months and days
Pad2(n) == <<DigitSeq[((n \div 10) % 10) + 1], DigitSeq[(n % 10) + 1]>>

\* the four-digit year of toISOString (years 0..9999)
Pad4(n) == <<DigitSeq[((n \div 1000) % 10) + 1], DigitSeq[((n \div 100) % 10) + 1],
             DigitSeq[((n \div 10) % 10) + 1], DigitSeq[(n % 10) + 1]>>

Num2(s, i) == 10 * DigitVal(s[i]) + DigitVal(s[i + 1])

Num4(s, i) == 1000 * DigitVal(s[i]) + 100 * DigitVal(s[i + 1])
              + 10 * DigitVal(s[i + 2]) + DigitVal(s[i + 3])

\* /^\d{4}-\d{2}-\d{2}$/.test(s)
MatchesDateRegex(s) ==
    /\ Len(s) = 10
    /\ \A i \in {1, 2, 3, 4, 6, 7, 9, 10} : s[i] \in Digits
    /\ s[5] = "-"
    /\ s[8] = "-"

-----------------------------------------------------------------------------
(* Calendar: the day number <-> (year, month, day) conversions behind      *)
(* Date parsing, MakeDay and toISOString (proleptic Gregorian calendar)    *)

DaysFromCivil(y, m, d) ==
    LET yy  == IF m <= 2 THEN y - 1 ELSE y
        era == yy \div 400
        yoe == yy - era * 400
        mp  == IF m > 2 THEN m - 3 ELSE m + 9
        doy == (153 * mp + 2) \div 5 + d - 1
        doe == yoe * 365 + yoe \div 4 - yoe \div 100 + doy
    IN  era * 146097 + doe - 719468

CivilFromDays(n) ==
    LET z   == n + 719468
        era == z \div 146097
        doe == z - era * 146097
        yoe == (doe - doe \div 1460 + doe \div 36524 - doe \div 146096) \div 365
        doy == doe - (365 * yoe + yoe \div 4 - yoe \div 100)
        mp  == (5 * doy + 2) \div 153
        d   == doy - (153 * mp + 2) \div 5 + 1
        m   == IF mp < 10 THEN mp + 3 ELSE mp - 9
        y   == yoe + era * 400 + (IF m <= 2 THEN 1 ELSE 0)
    IN  [y |-> y, m |-> m, d |-> d]

IsLeap(y) == ((y % 4) = 0 /\ (y % 100) # 0) \/ (y % 400) = 0

DaysInMonth(y, m) ==
    IF m = 2 THEN (IF IsLeap(y) THEN 29 ELSE 28)
    ELSE IF m \in {4, 6, 9, 11} THEN 30 ELSE 31

\* date.toISOString().split('T')[0] of the instant h
ToISODate(h) ==
    LET c == CivilFromDays(h \div 24)
    IN  Pad4(c.y) \o <<"-">> \o Pad2(c.m) \o <<"-">> \o Pad2(c.d)

\* new Date(s + 'T00:00:00Z').getTime() for a date string naming a real day
ParseUTCMidnight(s) == 24 * DaysFromCivil(Num4(s, 1), Num2(s, 6), Num2(s, 9))

-----------------------------------------------------------------------------
(* Local time: getDate and setDate work on the local calendar day of the   *)
(* machine that runs them; toISOString and the 'Z' parse work in UTC.      *)
(* The zones and their 2025 daylight-saving rules (IANA tz database).      *)

TimeZones == {"UTC", "America/Los_Angeles", "Europe/Berlin", "Asia/Tokyo",
              "Pacific/Honolulu"}

StdOffset(z) ==
    CASE z = "UTC" -> 0
      [] z = "America/Los_Angeles" -> -8
      [] z = "Europe/Berlin" -> 1
      [] z = "Asia/Tokyo" -> 9
      [] z = "Pacific/Honolulu" -> -10

HasDst(z) == z \in {"America/Los_Angeles", "Europe/Berlin"}

\* first instant of daylight-saving time in 2025
DstStart(z) ==
    IF z = "America/Los_Angeles" THEN 24 * DaysFromCivil(2025, 3, 9) + 10
    ELSE 24 * DaysFromCivil(2025, 3, 30) + 1

\* first instant of standard time after it in 2025
DstEnd(z) ==
    IF z = "America/Los_Angeles" THEN 24 * DaysFromCivil(2025, 11, 2) + 9
    ELSE 24 * DaysFromCivil(2025, 10, 26) + 1

\* the zone's offset from UTC in force at the instant u
OffsetAt(z, u) ==
    IF HasDst(z) /\ DstStart(z) <= u /\ u < DstEnd(z)
    THEN StdOffset(z) + 1
    ELSE StdOffset(z)

\* LocalTime(t) of ECMAScript
LocalTime(z, u) == u + OffsetAt(z, u)

\* UTC(t) of ECMAScript: a local time that repeats or is skipped at a
\* transition is read with the offset in force before the transition
UTCOfLocal(z, lt) ==
    LET cands == {lt - o : o \in {StdOffset(z), StdOffset(z) + 1}}
        valid == {u \in cands : LocalTime(z, u) = lt}
    IN  IF valid # {}
        THEN CHOOSE u \in valid : \A v \in valid : u <= v
        ELSE lt - StdOffset(z)

\* MakeDay(year, month, date) of ECMAScript: date may be 0 or past the
\* month's end and carries into the neighbouring month
MakeDay(y, m, dt) == DaysFromCivil(y, m, 1) + dt - 1

\* d.setDate(d.getDate() + delta) on the instant u, in zone z
SetDateBy(z, u, delta) ==
    LET lt == LocalTime(z, u)
        c  == CivilFromDays(lt \div 24)
        nd == MakeDay(c.y, c.m, c.d + delta)
    IN  UTCOfLocal(z, 24 * nd + (lt % 24))

\* const currentDate = new Date(date + 'T00:00:00Z');
\* currentDate.setDate(currentDate.getDate() + delta);
\* currentDate.toISOString().split('T')[0]
ShiftDate(z, s, delta) == ToISODate(SetDateBy(z, ParseUTCMidnight(s), delta))

-----------------------------------------------------------------------------
(* The calendar the claims speak of: the day before and the day after a    *)
(* date, by the month lengths                                              *)

IsCalendarDate(s) ==
    /\ MatchesDateRegex(s)
    /\ Num2(s, 6) \in 1..12
    /\ Num2(s, 9) \in 1..DaysInMonth(Num4(s, 1), Num2(s, 6))

MkDate(y, m, d) == Pad4(y) \o <<"-">> \o Pad2(m) \o <<"-">> \o Pad2(d)

CalendarPrevious(s) ==
    LET y == Num4(s, 1)
        m == Num2(s, 6)
        d == Num2(s, 9)
    IN  IF d > 1 THEN MkDate(y, m, d - 1)
        ELSE IF m > 1 THEN MkDate(y, m - 1, DaysInMonth(y, m - 1))
        ELSE MkDate(y - 1, 12, 31)

CalendarNext(s) ==
    LET y == Num4(s, 1)
        m == Num2(s, 6)
        d == Num2(s, 9)
    IN  IF d < DaysInMonth(y, m) THEN MkDate(y, m, d + 1)
        ELSE IF m < 12 THEN MkDate(y, m + 1, 1)
        ELSE MkDate(y + 1, 1, 1)

-----------------------------------------------------------------------------
(* The route handler  src/app/api/s3-data/route.ts                         *)

ErrInvalidDate == "Invalid date format. Use YYYY-MM-DD"

ErrMissingEnv ==
    "Missing AWS credentials or bucket name. Check your environment variables."

ErrReadS3 == "Failed to read S3 JSON"

\* what a key of the bucket can hold, and "Fault": the GetObject call itself
\* fails (network, credentials, permissions)
ObjectKinds == {"NoSuchKey", "Digest", "Malformed", "Fault"}

EnvNames == {"AWS_ACCESS_KEY_ID", "AWS_SECRET_ACCESS_KEY", "BUCKET_NAME"}

\* a mutant of ToKey: the day is left out of the key
ToKeyMonth(date) == SubSeq(date, 1, 7) \o <<"/summary.json">>

\* Key: `${date}/summary.json`
ToKey(date) == date \o <<"/summary.json">>

\* the parsed content of a well-formed summary.json written for date d
DigestOf(d) == <<"digest", d>>

\* s3.send(new GetObjectCommand({Bucket, Key})): the object's body, or a throw
S3Send(st, key) ==
    LET held == {d \in DOMAIN st : ToKey(d) = key}
        kind == IF held = {} THEN "NoSuchKey" ELSE st[CHOOSE d \in held : TRUE]
    IN  CASE kind = "NoSuchKey" -> [thrown |-> TRUE, name |-> "NoSuchKey"]
          [] kind = "Fault"     -> [thrown |-> TRUE, name |-> "ServiceFault"]
          [] kind = "Malformed" -> [thrown |-> FALSE, json |-> FALSE,
                                    value |-> Null]
          [] kind = "Digest"    -> [thrown |-> FALSE, json |-> TRUE,
                                    value |-> DigestOf(CHOOSE d \in held : TRUE)]

\* the test of line 36
ValidDateParam(date) == MatchesDateRegex(date)

\* a mutant of EnvComplete: the bucket name is not checked
EnvCompleteNoBucket(e) == e["AWS_ACCESS_KEY_ID"] /\ e["AWS_SECRET_ACCESS_KEY"]

\* the test of line 41, negated
EnvComplete(e) == \A n \in EnvNames : e[n]

\* GET(request): the response, and the keys of the commands sent to S3
GET(dateParam, e, st, clock) ==
    LET date == IF dateParam = Null
                THEN ToISODate(clock)
                ELSE dateParam
    IN  IF ~ValidDateParam(date)
        THEN [status |-> 400, body |-> [error |-> ErrInvalidDate], sent |-> <<>>]
        ELSE IF ~EnvComplete(e)
        THEN [status |-> 500, body |-> [error |-> ErrMissingEnv], sent |-> <<>>]
        ELSE LET key == ToKey(date)
                 got == S3Send(st, key)
             IN  IF got.thrown \/ ~got.json
                 THEN [status |-> 500, body |-> [error |-> ErrReadS3],
                       sent |-> <<key>>]
                 ELSE [status |-> 200, body |-> got.value, sent |-> <<key>>]

-----------------------------------------------------------------------------
(* The client component S3DataDisplay                                      *)

\* getInitialDate(): the useState initializer of selectedDate
getInitialDate(urlDate, clock) ==
    IF urlDate # Null /\ MatchesDateRegex(urlDate)
    THEN urlDate
    ELSE ToISODate(clock)

\* a mutant of ShouldTryPrevious: the previous day is tried on every miss
ShouldTryPreviousAlways(check, cUrl, cInit) == TRUE

\* a mutant of ShouldTryPrevious: the previous day is tried by every
\* invocation made while the URL carries no date
ShouldTryPreviousAnyCall(check, cUrl, cInit) == cUrl = Null

\* checkPreviousDays && !searchParams.get('utc_date') && !hasInitialized,
\* on the values the invocation's closure holds
ShouldTryPrevious(check, cUrl, cInit) == check /\ cUrl = Null /\ ~cInit

\* a mutant of NewCall: the previous-day request is issued together with the
\* primary one
NewCallEager(date, check, cUrl, cInit) ==
    [date |-> date, check |-> check, cUrl |-> cUrl, cInit |-> cInit,
     pc |-> "primary", net |-> "sent", resp |-> Null,
     prev |-> ShiftDate(tz, date, -1), outcome |-> "pending"]

\* a fetchData invocation up to its first await: the request is on its way
NewCall(date, check, cUrl, cInit) ==
    [date |-> date, check |-> check, cUrl |-> cUrl, cInit |-> cInit,
     pc |-> "primary", net |-> "sent", resp |-> Null, prev |-> Null,
     outcome |-> "pending"]

\* the date of the request the invocation is waiting on
RequestDate(c) == IF c.pc = "primary" THEN c.date ELSE c.prev

\* a mutant of Finish: the invocation never reaches its end
FinishNever(c, how) == [c EXCEPT !.net = "idle"]

Pending(c) == c.pc # "done"

Finish(c, how) == [c EXCEPT !.pc = "done", !.net = "idle", !.outcome = how]

\* the argument the initial-load effect passes as checkPreviousDays
InitialCheck(urlDate, init) == urlDate = Null /\ ~init

\* Both effects, as React runs them after the first render: the initial-load
\* effect calls fetchData and sets hasInitialized; the navigation effect does
\* nothing on that render and runs again, on the render that follows, because
\* hasInitialized changed.
Mount ==
    /\ ~mounted
    /\ mounted' = TRUE
    /\ calls' = <<NewCall(selectedDate, InitialCheck(url, hasInitialized),
                          url, hasInitialized),
                  NewCall(selectedDate, FALSE, url, TRUE)>>
    /\ loading' = TRUE
    /\ error' = NoError
    /\ hasInitialized' = TRUE
    /\ UNCHANGED <<world, harness, url, history, hpos, data, selectedDate,
                   s3log, clicks, netFaults>>

\* the route handler serves the request invocation i is waiting on
ServerGET(i) ==
    /\ mounted
    /\ i \in DOMAIN calls
    /\ calls[i].net = "sent"
    /\ LET r == GET(RequestDate(calls[i]), env, store, now)
       IN  /\ calls' = [calls EXCEPT ![i].net = "answered",
                                     ![i].resp = [status |-> r.status,
                                                  body |-> r.body]]
           /\ s3log' = s3log \o r.sent
    /\ UNCHANGED <<world, harness, mounted, url, history, hpos, data, loading,
                   error, hasInitialized, selectedDate, clicks, netFaults>>

\* fetch() rejects (the browser cannot reach the API): catch, then finally
TransportFail(i) ==
    /\ mounted
    /\ i \in DOMAIN calls
    /\ calls[i].net = "sent"
    /\ netFaults < MaxNetFaults
    /\ netFaults' = netFaults + 1
    /\ calls' = [calls EXCEPT ![i] = Finish(calls[i], "thrown")]
    /\ error' = "Failed to fetch"
    /\ loading' = FALSE
    /\ UNCHANGED <<world, harness, mounted, url, history, hpos, data,
                   hasInitialized, selectedDate, s3log, clicks>>

\* router.push(`?${params}`) with utc_date set to d: a new history entry
\* after the current one, the entries ahead of it dropped
Pushed(d) == SubSeq(history, 1, hpos) \o <<d>>

\* The response reaches invocation i, which runs on to its next await or to
\* its end; the state updates of the run are one batch, and the navigation
\* effect runs after the render when selectedDate changed.
ClientReceive(i) ==
    /\ mounted
    /\ i \in DOMAIN calls
    /\ calls[i].net = "answered"
    /\ LET c    == calls[i]
           ok   == c.resp.status \in 200..299
           miss == ~ok /\ c.resp.body.error = ErrReadS3
       IN  CASE c.pc = "primary" /\ ok ->
                  \* setData(jsonData); finally
                  /\ data' = c.resp.body
                  /\ loading' = FALSE
                  /\ calls' = [calls EXCEPT ![i] = Finish(c, "success")]
                  /\ UNCHANGED <<error, selectedDate, url, history, hpos>>
             [] c.pc = "primary" /\ miss
                  /\ ShouldTryPrevious(c.check, c.cUrl, c.cInit) ->
                  \* fetch(`/api/s3-data?date=${previousDate}`)
                  /\ calls' = [calls EXCEPT
                                 ![i].pc = "fallback",
                                 ![i].net = "sent",
                                 ![i].prev = ShiftDate(tz, c.date, -1)]
                  /\ UNCHANGED <<data, loading, error, selectedDate, url,
                                 history, hpos>>
             [] c.pc = "primary" /\ miss
                  /\ ~ShouldTryPrevious(c.check, c.cUrl, c.cInit) ->
                  \* setData(null); return; finally
                  /\ data' = Null
                  /\ loading' = FALSE
                  /\ calls' = [calls EXCEPT ![i] = Finish(c, "empty")]
                  /\ UNCHANGED <<error, selectedDate, url, history, hpos>>
             [] c.pc = "primary" /\ ~ok /\ ~miss ->
                  \* throw new Error(errorData.error); catch; finally
                  /\ error' = c.resp.body.error
                  /\ loading' = FALSE
                  /\ calls' = [calls EXCEPT ![i] = Finish(c, "thrown")]
                  /\ UNCHANGED <<data, selectedDate, url, history, hpos>>
             [] c.pc = "fallback" /\ ok ->
                  \* setData(prevData); setSelectedDate(previousDate);
                  \* router.push; setHasInitialized(true); return; finally;
                  \* then the navigation effect, if selectedDate changed
                  /\ data' = c.resp.body
                  /\ selectedDate' = c.prev
                  /\ url' = c.prev
                  /\ history' = Pushed(c.prev)
                  /\ hpos' = hpos + 1
                  /\ IF c.prev # selectedDate
                     THEN /\ calls' = Append(
                                [calls EXCEPT ![i] = Finish(c, "fallbackSuccess")],
                                NewCall(c.prev, FALSE, url, hasInitialized))
                          /\ loading' = TRUE
                          /\ error' = NoError
                     ELSE /\ calls' = [calls EXCEPT
                                         ![i] = Finish(c, "fallbackSuccess")]
                          /\ loading' = FALSE
                          /\ UNCHANGED error
             [] c.pc = "fallback" /\ ~ok ->
                  \* setData(null); return; finally
                  /\ data' = Null
                  /\ loading' = FALSE
                  /\ calls' = [calls EXCEPT ![i] = Finish(c, "fallbackFailure")]
                  /\ UNCHANGED <<error, selectedDate, url, history, hpos>>
    /\ UNCHANGED <<world, harness, mounted, hasInitialized, s3log, clicks,
                   netFaults>>

\* what the render shows: the three early returns of the component body
View ==
    IF loading THEN "skeleton"
    ELSE IF error # NoError THEN "error"
    ELSE IF data = Null THEN "empty"
    ELSE "digest"

\* changeDate(direction) from a chevron button, then the navigation effect
changeDate(delta) ==
    /\ mounted
    /\ View \in {"empty", "digest"}
    /\ clicks < MaxClicks
    /\ clicks' = clicks + 1
    /\ LET newDate == ShiftDate(tz, selectedDate, delta)
       IN  /\ selectedDate' = newDate
           /\ url' = newDate
           /\ history' = Pushed(newDate)
           /\ hpos' = hpos + 1
           /\ IF newDate # selectedDate
              THEN /\ calls' = Append(calls,
                                  NewCall(newDate, FALSE, url, hasInitialized))
                   /\ loading' = TRUE
                   /\ error' = NoError
              ELSE UNCHANGED <<calls, loading, error>>
    /\ UNCHANGED <<world, harness, mounted, data, hasInitialized, s3log,
                   netFaults>>

\* onClick={() => fetchData(selectedDate)} of the Refresh button
Refresh ==
    /\ mounted
    /\ View = "empty"
    /\ clicks < MaxClicks
    /\ clicks' = clicks + 1
    /\ calls' = Append(calls, NewCall(selectedDate, FALSE, url, hasInitialized))
    /\ loading' = TRUE
    /\ error' = NoError
    /\ UNCHANGED <<world, harness, mounted, url, history, hpos, data,
                   hasInitialized, selectedDate, s3log, netFaults>>

\* onClick={() => fetchData(selectedDate)} of the Try Again button
TryAgain ==
    /\ mounted
    /\ View = "error"
    /\ clicks < MaxClicks
    /\ clicks' = clicks + 1
    /\ calls' = Append(calls, NewCall(selectedDate, FALSE, url, hasInitialized))
    /\ loading' = TRUE
    /\ error' = NoError
    /\ UNCHANGED <<world, harness, mounted, url, history, hpos, data,
                   hasInitialized, selectedDate, s3log, netFaults>>

\* the browser's back (-1) or forward (+1) button: useSearchParams gives the
\* entry's parameters on the next render; no state of the component changes
HistoryGo(delta) ==
    /\ mounted
    /\ clicks < MaxClicks
    /\ hpos + delta \in DOMAIN history
    /\ clicks' = clicks + 1
    /\ hpos' = hpos + delta
    /\ url' = history[hpos + delta]
    /\ UNCHANGED <<world, harness, mounted, history, data, loading, error,
                   hasInitialized, selectedDate, calls, s3log, netFaults>>

-----------------------------------------------------------------------------
(* The page: initial states and next-state relation                        *)

\* the UTC instant and the browser's zone the page is opened at and in: new
\* year's day in UTC, and the day after Los Angeles leaves daylight-saving
\* time
Scenarios ==
    {<<24 * DaysFromCivil(2025, 1, 1) + 7, "UTC">>,
     <<24 * DaysFromCivil(2025, 11, 3) + 7, "America/Los_Angeles">>}

\* a utc_date parameter that is no date
Garbage == <<"y", "e", "s", "t", "e", "r", "d", "a", "y">>

\* the utc_date parameter the page is opened with
PageUrls(t) == {Null, CalendarPrevious(t), Garbage}

AllSet == [n \in EnvNames |-> TRUE]

\* the bucket as the ingestion job may have left it around the day t
PageStores(t) ==
    {st \in [{t, CalendarPrevious(t), CalendarPrevious(CalendarPrevious(t))}
                -> ObjectKinds] :
        \A d \in DOMAIN st : d # t => st[d] \in {"NoSuchKey", "Digest"}}

EmptyBucket(t) == [d \in {t} |-> "NoSuchKey"]

HarnessIdle == api = Null /\ cal = Null /\ list = Null

\* the component after its first render, before its effects have run
Init ==
    /\ \E sc \in Scenarios : now = sc[1] /\ tz = sc[2]
    /\ \/ env = AllSet /\ store \in PageStores(ToISODate(now))
       \/ /\ env = [AllSet EXCEPT !["BUCKET_NAME"] = FALSE]
          /\ store = EmptyBucket(ToISODate(now))
    /\ url \in PageUrls(ToISODate(now))
    /\ history = <<url>>
    /\ hpos = 1
    /\ mounted = FALSE
    /\ data = Null
    /\ loading = TRUE
    /\ error = NoError
    /\ hasInitialized = FALSE
    /\ selectedDate = getInitialDate(url, now)
    /\ calls = <<>>
    /\ s3log = <<>>
    /\ clicks = 0
    /\ netFaults = 0
    /\ HarnessIdle

Next ==
    \/ Mount
    \/ \E i \in DOMAIN calls : ServerGET(i)
    \/ \E i \in DOMAIN calls : TransportFail(i)
    \/ \E i \in DOMAIN calls : ClientReceive(i)
    \/ changeDate(-1)
    \/ changeDate(1)
    \/ Refresh
    \/ TryAgain
    \/ HistoryGo(-1)
    \/ HistoryGo(1)

Spec == Init /\ [][Next]_vars

\* the most fetchData invocations of a run: the two of the mount, the one
\* after a fallback, and one per click
MaxCalls == MaxClicks + 3

\* an invocation awaits the response of a request: ServerGET or
\* ClientReceive is enabled
Awaiting ==
    mounted /\ \E i \in DOMAIN calls : calls[i].net \in {"sent", "answered"}

\* every request sent is served and every response served is delivered to
\* the invocation that awaits it: WF_vars of the two steps, with ENABLED
\* written out as Awaiting (ServerGET(i) can step exactly when request i is
\* sent, ClientReceive(i) exactly when it is answered: its CASE covers every
\* answered invocation)
Responsive ==
    \/ []<>(~Awaiting)
    \/ []<><<\E i \in DOMAIN calls : ServerGET(i) \/ ClientReceive(i)>>_vars

FairSpec == Spec /\ Responsive

-----------------------------------------------------------------------------
(* The route handler on its own: one request, any date parameter           *)

BaseDate == MkDate(2025, 1, 15)

ParamChars == {"0", "1", "3", "9", "-", "/", "T", "x", " "}

\* date parameters: none, the documented form, the spec's two examples, and
\* every string one edit away from a date
ApiParams ==
    {Null, BaseDate,
     <<"2", "0", "2", "5", "-", "1", "3", "-", "4", "0">>,
     <<"0", "1", "-", "0", "1", "-", "2", "0", "2", "5">>,
     <<"2", "0", "2", "5", "-", "0", "2", "-", "3", "0">>,
     <<"2", "0", "2", "5", "-", "0", "0", "-", "1", "0">>,
     <<"2", "0", "2", "5", "-", "1", "-", "5">>,
     <<"2", "0", "2", "5", "0", "1", "1", "5">>}
    \cup {[BaseDate EXCEPT ![i] = ch] : i \in 1..10, ch \in ParamChars}
    \cup {SubSeq(BaseDate, 1, k) : k \in 1..9}
    \cup {BaseDate \o <<ch>> : ch \in ParamChars}
    \cup {<<ch>> \o BaseDate : ch \in ParamChars}

ApiClock == 24 * DaysFromCivil(2025, 1, 16) + 7

ApiStores == [{BaseDate, ToISODate(ApiClock)} -> ObjectKinds]

PageIdle ==
    /\ url = Null
    /\ history = <<Null>>
    /\ hpos = 1
    /\ mounted = FALSE
    /\ data = Null
    /\ loading = TRUE
    /\ error = NoError
    /\ hasInitialized = FALSE
    /\ selectedDate = ToISODate(now)
    /\ calls = <<>>
    /\ clicks = 0
    /\ netFaults = 0

InitApi ==
    /\ now = ApiClock
    /\ tz = "UTC"
    /\ env \in [EnvNames -> BOOLEAN]
    /\ store \in ApiStores
    /\ s3log = <<>>
    /\ \E q \in ApiParams :
          api = [param |-> q, done |-> FALSE, status |-> 0, error |-> "",
                 data |-> Null]
    /\ cal = Null
    /\ list = Null
    /\ PageIdle

\* a request for /api/s3-data with the date parameter api.param is served
ApiGET ==
    /\ ~api.done
    /\ LET r == GET(api.param, env, store, now)
       IN  /\ api' = [api EXCEPT
                        !.done = TRUE,
                        !.status = r.status,
                        !.error = IF r.status = 200 THEN "" ELSE r.body.error,
                        !.data = IF r.status = 200 THEN r.body ELSE Null]
           /\ s3log' = s3log \o r.sent
    /\ UNCHANGED <<world, mounted, url, history, hpos, data, loading, error,
                   hasInitialized, selectedDate, calls, clicks, netFaults, cal,
                   list>>

NextApi == ApiGET

SpecApi == InitApi /\ [][NextApi]_vars

-----------------------------------------------------------------------------
(* The day arithmetic on its own: every date of the window, every zone     *)

WindowDays == 370

WindowStart == DaysFromCivil(2024, 12, 30)

CalDates == {ToISODate(24 * (WindowStart + k)) : k \in 0..(WindowDays - 1)}

InitCal ==
    /\ now = ApiClock
    /\ tz \in TimeZones
    /\ env = AllSet
    /\ store = EmptyBucket(ToISODate(now))
    /\ s3log = <<>>
    /\ api = Null
    /\ list = Null
    /\ \E d \in CalDates : cal = [date |-> d, op |-> "none", out |-> Null]
    /\ PageIdle

CalStep(name, result) ==
    /\ cal.op = "none"
    /\ cal' = [cal EXCEPT !.op = name, !.out = result]
    /\ UNCHANGED <<world, mounted, url, history, hpos, data, loading, error,
                   hasInitialized, selectedDate, calls, s3log, clicks,
                   netFaults, api, list>>

\* changeDate('prev'), and the previousDate of fetchData
CalPrevious == CalStep("previous", ShiftDate(tz, cal.date, -1))

\* changeDate('next')
CalNext == CalStep("next", ShiftDate(tz, cal.date, 1))

\* changeDate('next') and then changeDate('prev')
CalNextPrevious ==
    CalStep("next-previous", ShiftDate(tz, ShiftDate(tz, cal.date, 1), -1))

\* changeDate('prev') and then changeDate('next')
CalPreviousNext ==
    CalStep("previous-next", ShiftDate(tz, ShiftDate(tz, cal.date, -1), 1))

NextCal == CalPrevious \/ CalNext \/ CalNextPrevious \/ CalPreviousNext

SpecCal == InitCal /\ [][NextCal]_vars

-----------------------------------------------------------------------------
(* The card list on its own: the render of a summary's latest_news         *)

\* the most members of a summary's latest_news
MaxEntries == 3

Titles == {"A", "B", "C"}

Bodies == {"x", "y"}

\* the members of latest_news as the JSON text lists them; a title may repeat
MemberLists ==
    UNION {[1..n -> Titles \X Bodies] : n \in 0..MaxEntries}

\* where the title of member k is first listed
FirstAt(ms, k) == CHOOSE j \in 1..k : ms[j][1] = ms[k][1] /\
                     \A h \in 1..(j - 1) : ms[h][1] # ms[k][1]

RECURSIVE KeysOf(_, _)
\* the titles of the first k members, each once, in the order first listed
KeysOf(ms, k) ==
    IF k = 0 THEN <<>>
    ELSE IF FirstAt(ms, k) = k
         THEN Append(KeysOf(ms, k - 1), ms[k][1])
         ELSE KeysOf(ms, k - 1)

\* JSON.parse of the object: a property per title, in the order first
\* listed, holding the value listed last
JsonObject(ms) ==
    [keys |-> KeysOf(ms, Len(ms)),
     val  |-> [t \in {ms[k][1] : k \in DOMAIN ms} |->
                  ms[CHOOSE k \in DOMAIN ms :
                        ms[k][1] = t /\ \A h \in DOMAIN ms :
                            ms[h][1] = t => h <= k][2]]]

\* Object.entries(data.latest_news)
ObjectEntries(obj) ==
    [k \in 1..Len(obj.keys) |-> <<obj.keys[k], obj.val[obj.keys[k]]>>]

\* a mutant of CardOf: the card shows the array index itself
CardOfZeroBased(entry, index) ==
    [key |-> entry[1], number |-> index, label |-> <<"#">> \o Pad2(index),
     title |-> entry[1], content |-> entry[2]]

\* ([title, content], index) => <Card key={title}> with
\* #{String(index + 1).padStart(2, '0')}, the title and the content
CardOf(entry, index) ==
    [key |-> entry[1], number |-> index + 1,
     label |-> <<"#">> \o Pad2(index + 1),
     title |-> entry[1], content |-> entry[2]]

\* newsEntries.map(...)
Cards(obj) ==
    LET newsEntries == ObjectEntries(obj)
    IN  [k \in 1..Len(newsEntries) |-> CardOf(newsEntries[k], k - 1)]

InitList ==
    /\ now = ApiClock
    /\ tz = "UTC"
    /\ env = AllSet
    /\ store = EmptyBucket(ToISODate(now))
    /\ s3log = <<>>
    /\ api = Null
    /\ cal = Null
    /\ \E ms \in MemberLists :
          list = [members |-> ms, done |-> FALSE, cards |-> <<>>]
    /\ PageIdle

\* the component renders the summary whose latest_news has these members
RenderList ==
    /\ ~list.done
    /\ list' = [list EXCEPT !.done = TRUE,
                            !.cards = Cards(JsonObject(list.members))]
    /\ UNCHANGED <<world, mounted, url, history, hpos, data, loading, error,
                   hasInitialized, selectedDate, calls, s3log, clicks,
                   netFaults, api, cal>>

NextList == RenderList

SpecList == InitList /\ [][NextList]_vars

-----------------------------------------------------------------------------
(* Vocabulary of the claims                                                *)

\* today(): the current UTC date
Today == ToISODate(now)

Yesterday == CalendarPrevious(Today)

\* the utc_date parameter the page was loaded with
LoadedWith == history[1]

ImplicitLoad == LoadedWith = Null

ExplicitLoad == IsCalendarDate(LoadedWith)

\* what the bucket holds for the date d
Holds(d) == IF d \in DOMAIN store THEN store[d] ELSE "NoSuchKey"

\* the API is configured and every request of the browser reached it
Reachable == env = AllSet /\ netFaults = 0

\* the effects have run and no fetchData invocation is waiting on a request
AllSettled == mounted /\ \A i \in DOMAIN calls : ~Pending(calls[i])

\* the invocations that issued the previous-day request
FellBack == {i \in DOMAIN calls : calls[i].prev # Null}

-----------------------------------------------------------------------------
(* C1 *)

\* C1: a page loaded with an explicit date d for which the bucket holds no
\* object never issues the previous-day request; until the user acts every
\* request is for d; and once its requests are answered it shows the empty
\* state for d: data = null, error = null, selectedDate = d.
C1_ExplicitDateNeverFallsBack ==
    (mounted /\ ExplicitLoad /\ Holds(LoadedWith) = "NoSuchKey") =>
        /\ FellBack = {}
        /\ clicks = 0 => \A i \in DOMAIN calls : calls[i].date = LoadedWith
        /\ (AllSettled /\ clicks = 0 /\ Reachable) =>
              /\ data = Null
              /\ error = NoError
              /\ ~loading
              /\ selectedDate = LoadedWith

\* C1's case: the explicit date missed, both requests of the load answered
C1_Witness ==
    /\ ExplicitLoad
    /\ Holds(LoadedWith) = "NoSuchKey"
    /\ AllSettled
    /\ Reachable
    /\ clicks = 0
    /\ Len(calls) = 2
    /\ \A i \in DOMAIN calls : calls[i].outcome = "empty"
    /\ View = "empty"

-----------------------------------------------------------------------------
(* C2 *)

\* C2: a page loaded with no date parameter, today's object missing and
\* yesterday's a valid digest: once every request is answered the page shows
\* yesterday's digest, tagged with yesterday (selectedDate and the URL), and
\* no error.
C2_ImplicitTodayFallsBack ==
    (AllSettled /\ ImplicitLoad /\ clicks = 0 /\ Reachable
       /\ Holds(Today) = "NoSuchKey" /\ Holds(Yesterday) = "Digest") =>
        /\ data = DigestOf(Yesterday)
        /\ selectedDate = Yesterday
        /\ url = Yesterday
        /\ error = NoError

-----------------------------------------------------------------------------
(* C3 *)

\* C3: a page loaded with no date parameter, today's and yesterday's objects
\* both missing: no request is issued for the day before yesterday or
\* earlier, and once every request is answered the page shows the empty
\* state.
C3_FallbackNotChained ==
    (mounted /\ ImplicitLoad /\ clicks = 0 /\ env = AllSet
       /\ Holds(Today) = "NoSuchKey" /\ Holds(Yesterday) = "NoSuchKey") =>
        /\ \A i \in DOMAIN calls :
              /\ calls[i].date \in {Today, Yesterday}
              /\ calls[i].prev \in {Null, Yesterday}
        /\ (AllSettled /\ netFaults = 0) => data = Null /\ error = NoError

-----------------------------------------------------------------------------
(* C4 *)

\* C4: a page loaded with no date parameter and left alone, today's object
\* missing: once every request is answered S3 has been called exactly twice,
\* once for today's key and once for yesterday's.
C4_StoreCalledTwice ==
    (AllSettled /\ ImplicitLoad /\ clicks = 0 /\ Reachable
       /\ Holds(Today) = "NoSuchKey") =>
        /\ Len(s3log) = 2
        /\ {s3log[k] : k \in DOMAIN s3log} = {ToKey(Today), ToKey(Yesterday)}

-----------------------------------------------------------------------------
(* C5 *)

\* C5: a fetchData invocation whose request met a failing S3 call (not a
\* missing object) never issues the previous-day request and never ends on
\* the no-data path: it ends with the error shown.
C5_StoreFaultIsError ==
    \A i \in DOMAIN calls :
        (env = AllSet /\ Holds(calls[i].date) = "Fault"
           /\ calls[i].net \in {"answered", "idle"}) =>
            /\ calls[i].prev = Null
            /\ calls[i].outcome \in {"pending", "thrown"}

-----------------------------------------------------------------------------
(* C6 *)

\* C6: a fetchData invocation whose request met an object that is not valid
\* JSON ends with the error shown, whether or not it may fall back: it never
\* issues the previous-day request and never ends on the no-data path.
C6_MalformedPayloadIsError ==
    \A i \in DOMAIN calls :
        (env = AllSet /\ Holds(calls[i].date) = "Malformed"
           /\ calls[i].net \in {"answered", "idle"}) =>
            /\ calls[i].outcome \in {"pending", "thrown"}
            /\ calls[i].prev = Null

-----------------------------------------------------------------------------
(* C7 *)

\* C7: a request whose date parameter is given and is no calendar date in
\* the form YYYY-MM-DD is answered 400 with the format error, and no command
\* is sent to S3.
C7_InvalidDateRejected ==
    (api.done /\ api.param # Null /\ ~IsCalendarDate(api.param)) =>
        /\ api.status = 400
        /\ api.error = ErrInvalidDate
        /\ s3log = <<>>

-----------------------------------------------------------------------------
(* C8 *)

\* the date the handler works with: the parameter, or today without one
EffectiveDate == IF api.param = Null THEN Today ELSE api.param

\* C8 as stated: whenever a required configuration value is absent the
\* request is answered 500 with the missing-configuration error and no
\* command is sent to S3.
C8_MissingConfigAlways500 ==
    (api.done /\ ~(\A n \in EnvNames : env[n])) =>
        /\ api.status = 500
        /\ api.error = ErrMissingEnv
        /\ s3log = <<>>

\* C8, amended: whenever a required configuration value is absent no command
\* is sent to S3; the request is answered 500 with the missing-configuration
\* error when its date has the form NNNN-NN-NN (or is absent), and 400 with
\* the format error otherwise.
C8_MissingConfigFailsFast ==
    (api.done /\ ~(\A n \in EnvNames : env[n])) =>
        /\ s3log = <<>>
        /\ MatchesDateRegex(EffectiveDate) =>
              api.status = 500 /\ api.error = ErrMissingEnv
        /\ ~MatchesDateRegex(EffectiveDate) =>
              api.status = 400 /\ api.error = ErrInvalidDate

\* C8's case: only the bucket name is missing, the date is well formed, and
\* the request was answered with the missing-configuration error
C8_Witness ==
    /\ api.done
    /\ env = [AllSet EXCEPT !["BUCKET_NAME"] = FALSE]
    /\ api.param = BaseDate
    /\ api.status = 500
    /\ api.error = ErrMissingEnv
    /\ s3log = <<>>

-----------------------------------------------------------------------------
(* C9 *)

\* C9: only the invocation made by the initial-load effect ever issues the
\* previous-day request: no invocation made later (by the navigation effect,
\* Refresh, Try Again or a chevron) is allowed to fall back or does.
C9_FallbackOnlyOnInitialLoad ==
    /\ FellBack \subseteq {1}
    /\ \A i \in DOMAIN calls : i > 1 =>
          ~ShouldTryPrevious(calls[i].check, calls[i].cUrl, calls[i].cInit)

\* C9's case: the initial load fell back, and a later user action fetched a
\* date that missed and ended on the no-data path
C9_Witness ==
    /\ 1 \in FellBack
    /\ clicks > 0
    /\ \E i \in DOMAIN calls : i > 2 /\ calls[i].outcome = "empty"

-----------------------------------------------------------------------------
(* C10 *)

\* C10: in every time zone, previous and next move a date by exactly one
\* calendar day, across month and year boundaries, and undo each other.
C10_DayArithmeticExact ==
    /\ cal.op = "previous" => cal.out = CalendarPrevious(cal.date)
    /\ cal.op = "next" => cal.out = CalendarNext(cal.date)
    /\ cal.op \in {"next-previous", "previous-next"} => cal.out = cal.date

-----------------------------------------------------------------------------
(* C11 *)

\* C11: a request that passes both tests of the handler (date format,
\* environment) sends exactly one GetObject command, for the key
\* "{date}/summary.json" of its date: the date parameter, or today's UTC
\* date without one; and no other well-formed date has that key.
C11_OneReadForDateKey ==
    (api.done /\ MatchesDateRegex(EffectiveDate) /\ env = AllSet) =>
        /\ s3log = <<EffectiveDate \o <<"/summary.json">>>>
        /\ \A q \in ApiParams :
              (MatchesDateRegex(q) /\ q # EffectiveDate) => ToKey(q) # s3log[1]

\* C11's case: a request without a date parameter was served from today's key
C11_Witness ==
    /\ api.done
    /\ api.param = Null
    /\ env = AllSet
    /\ api.status = 200
    /\ s3log = <<ToKey(Today)>>

-----------------------------------------------------------------------------
(* C12 *)

\* C12: an invocation issues the previous-day request at most once, and only
\* in a step that consumes the response to its primary request: never when
\* it is called, never while the primary request is unanswered, and never a
\* second time.
C12_FallbackOnceAndSequential ==
    [][/\ \A i \in DOMAIN calls :
             /\ calls'[i].prev # calls[i].prev =>
                   /\ calls[i].prev = Null
                   /\ calls[i].pc = "primary"
                   /\ calls[i].net = "answered"
                   /\ calls'[i].pc = "fallback"
             /\ calls[i].pc = "fallback" => calls'[i].pc \in {"fallback", "done"}
             /\ calls[i].pc = "done" => calls'[i] = calls[i]
       /\ \A i \in DOMAIN calls' \ DOMAIN calls :
             calls'[i].prev = Null /\ calls'[i].pc = "primary"]_vars

\* C12's case: the primary request was answered with the miss and the
\* previous-day request is on its way
C12_Witness ==
    \E i \in DOMAIN calls :
        /\ calls[i].pc = "fallback"
        /\ calls[i].net = "sent"
        /\ calls[i].resp.status = 500
        /\ calls[i].prev # Null

-----------------------------------------------------------------------------
(* C13 *)

\* the titles a summary lists, as a set
TitlesListed == {list.members[k][1] : k \in DOMAIN list.members}

\* C13: the cards of a summary with n entries are n cards numbered 1..n in
\* the entries' order: card k shows the k-th title first listed, with its
\* content, and every title has exactly one card.
C13_CardsEnumerateEntries ==
    list.done =>
        LET obj == JsonObject(list.members)
            n   == Cardinality(TitlesListed)
        IN  /\ Len(list.cards) = n
            /\ \A k \in 1..n :
                  /\ list.cards[k].number = k
                  /\ list.cards[k].label = <<"#">> \o Pad2(k)
                  /\ list.cards[k].title = obj.keys[k]
                  /\ list.cards[k].content = obj.val[obj.keys[k]]
            /\ \A t \in TitlesListed :
                  Cardinality({k \in 1..n : list.cards[k].title = t}) = 1

\* C13's case: the entries {"A": "x", "B": "y"} rendered, A numbered 1 and B 2
C13_Witness ==
    /\ list.done
    /\ list.members = <<<<"A", "x">>, <<"B", "y">>>>
    /\ Len(list.cards) = 2
    /\ list.cards[1].title = "A" /\ list.cards[1].number = 1
    /\ list.cards[2].title = "B" /\ list.cards[2].number = 2

-----------------------------------------------------------------------------
(* C14 *)

\* what the page should show for the date d: its digest, or nothing
StoreContent(d) == IF Holds(d) = "Digest" THEN DigestOf(d) ELSE Null

\* C14: once no request is in flight the displayed data is the store's
\* content for the current selectedDate, the digest for that date or null
\* when the bucket holds none, whatever the order the responses arrived in.
C14_NoStaleResponseWins ==
    (AllSettled /\ Reachable /\ Holds(selectedDate) \in {"Digest", "NoSuchKey"})
        => data = StoreContent(selectedDate)

-----------------------------------------------------------------------------
(* C15 *)

\* C15: whenever the URL carries a valid utc_date parameter, the date the
\* mounted component displays and fetches is that parameter, after any
\* sequence of load, fallback, clicks and browser back/forward navigation.
C15_SelectedDateFollowsUrl ==
    (mounted /\ IsCalendarDate(url)) => selectedDate = url

-----------------------------------------------------------------------------
(* C16 *)

\* C16: in every state in which a fetchData invocation still has an
\* outstanding request the loading flag is set.
C16_LoadingCoversPending ==
    (\E i \in DOMAIN calls : Pending(calls[i])) => loading

-----------------------------------------------------------------------------
(* C17 *)

\* invocation i runs to its end in this step
Settles(i) == calls[i].pc # "done" /\ calls'[i].pc = "done"

\* C17: when every request is answered, every fetchData invocation reaches
\* its end, on one of its five paths; the step that ends it leaves
\* loading = false (unless that same step starts the next fetch), and, no
\* request having gone unanswered, it leaves error set exactly when the
\* invocation ended on the thrown-error path.
C17_EveryFetchSettles ==
    /\ \A i \in 1..MaxCalls :
          (i \in DOMAIN calls) ~> (i \in DOMAIN calls /\ calls[i].pc = "done")
    /\ [][\A i \in DOMAIN calls :
             Settles(i) =>
                /\ calls'[i].outcome \in {"success", "empty", "fallbackSuccess",
                                          "fallbackFailure", "thrown"}
                /\ loading' = FALSE \/ Len(calls') > Len(calls)
                /\ netFaults' = 0 =>
                      (error' # NoError <=> calls'[i].outcome = "thrown")]_vars

\* C17's case: with no request unanswered, invocations have ended on the
\* thrown-error path, leaving the error set and loading false
C17_Witness ==
    /\ netFaults = 0
    /\ AllSettled
    /\ \E i \in DOMAIN calls :
          calls[i].outcome = "thrown" /\ calls[i].resp.status = 500
    /\ error = ErrMissingEnv
    /\ ~loading

=============================================================================
